---- MODULE Spec2Model ----
(***************************************************************************)
(* A model of fridb.py: a single-file JSON database.  One FriDB object at  *)
(* a time is connected to one database file.  The state is the object's    *)
(* fields (_db, _highest_id, _file.closed), the content of the file, and   *)
(* the outcome of the last public call (exception raised, value returned). *)
(***************************************************************************)
EXTENDS Integers, Sequences, FiniteSets, TLC

\* ------------------------------------------------------------------ bounds
\* insert is only explored while the new identifier stays <= MaxId
MaxId == 1
\* insert is only explored while the store holds fewer than MaxRows rows
MaxRows == 2
\* select and read are explored with limits from -MaxLimit to MaxLimit
MaxLimit == 2

\* ------------------------------------------------------------- input sets
\* table names of the whole-program specification, and of the specification
\* of one session over several tables
Names == {"t1"}
TableNames == {"t1", "t2"}

\* Python values stored as row data: a str and an int.  Two values of the
\* same type are ordered by val; values of different types do not compare.
Str(n) == [type |-> "str", val |-> n]
PyInt(n) == [type |-> "int", val |-> n]
Values == {Str(1), PyInt(1)}

Ids == -1 .. MaxId
Limits == -MaxLimit .. MaxLimit

VARIABLES
    constructed,   \* TRUE iff the caller holds a FriDB object
    db,            \* self._db: ordered dict, a sequence of [name, rows]
    highest_id,    \* self._highest_id: dict table -> int
    file_closed,   \* self._file.closed
    file_content,  \* content of the database file
    call,          \* name of the last public call
    raised,        \* exception raised by the last call (NoError if none)
    ret,           \* value returned by the last call
    found_closed,  \* history: the last call found the file closed
    issued,        \* history: table -> identifiers insert assigned to it
    created,       \* history: table created in this session -> inserts
    history        \* history: table -> rows inserted, less the deleted ones

vars == <<constructed, db, highest_id, file_closed, file_content,
          call, raised, ret, found_closed, issued, created, history>>

\* --------------------------------------------------------------- outcomes
NoError == [type |-> "none", msg |-> ""]
DBError(m) == [type |-> "DBError", msg |-> m]
TypeError == [type |-> "TypeError", msg |-> "'>' not supported"]
NotSubscriptable == [type |-> "TypeError", msg |-> "not subscriptable"]
NotIterable == [type |-> "TypeError", msg |-> "not iterable"]
IndexError == [type |-> "IndexError", msg |-> "index out of range"]
JSONDecodeError == [type |-> "JSONDecodeError", msg |-> ""]

None == [kind |-> "None", items |-> <<>>]
List(s) == [kind |-> "list", items |-> s]

\* ------------------------------------------------- ordered dict (self._db)
EmptyDict == <<>>
Keys(d) == [i \in 1 .. Len(d) |-> d[i].name]
HasKey(d, t) == \E i \in 1 .. Len(d) : d[i].name = t
GetItem(d, t) == d[CHOOSE i \in 1 .. Len(d) : d[i].name = t].rows
\* mutant of SetItem: the rows are stored under every key
SetItem_every(d, t, rows) ==
    IF HasKey(d, t)
    THEN [i \in 1 .. Len(d) |-> [name |-> d[i].name, rows |-> rows]]
    ELSE Append(d, [name |-> t, rows |-> rows])

\* d[t] = rows: an existing key keeps its position, a new key goes last
SetItem(d, t, rows) ==
    IF HasKey(d, t)
    THEN [i \in 1 .. Len(d) |->
            IF d[i].name = t THEN [name |-> t, rows |-> rows] ELSE d[i]]
    ELSE Append(d, [name |-> t, rows |-> rows])
\* mutant of DelItem: every key is removed
DelItem_all(d, t) == EmptyDict

\* del d[t]
DelItem(d, t) == SelectSeq(d, LAMBDA e : e.name # t)

\* dict without order (self._highest_id is never iterated)
EmptyMap == [t \in {} |-> 0]
MapSet(h, t, v) == [k \in DOMAIN h \cup {t} |-> IF k = t THEN v ELSE h[k]]
MapDel(h, t) == [k \in DOMAIN h \ {t} |-> h[k]]

\* a row of a table: the Python tuple (id, data)
Row(i, v) == [id |-> i, data |-> v]

\* ------------------------------------------------------------ file content
\* a file of no bytes, a file whose bytes are not JSON, a file holding a JSON
\* number, and a file holding a JSON object with the members m
EmptyFile == [kind |-> "empty", members |-> <<>>]
Text == [kind |-> "text", members |-> <<>>]
JsonNumber == [kind |-> "number", members |-> <<>>]
JsonObject(m) == [kind |-> "json", members |-> m]

\* a JSON array; JSON strings and numbers are Str(n) and PyInt(n)
JsonArray(s) == [type |-> "array", val |-> s]

\* json.dump(self._db): every table is a member, every tuple an array
dump(d) ==
    JsonObject([i \in 1 .. Len(d) |->
        [key |-> d[i].name,
         value |-> [j \in 1 .. Len(d[i].rows) |->
                      JsonArray(<<d[i].rows[j].id, d[i].rows[j].data>>)]]])

\* _get_file_size(fp) == 0
file_is_empty(content) == content.kind = "empty"

\* ------------------------------------------------------------ Python pieces
\* a > b as Python evaluates it for two row values
py_gt(a, b) ==
    IF a.type = b.type
    THEN [raised |-> NoError, value |-> a.val > b.val]
    ELSE [raised |-> TypeError, value |-> FALSE]

\* max(rows, key=lambda item: item[1]) for a non-empty list: the first row
\* whose data is greater than the data of every row before it wins
RECURSIVE max_scan(_, _, _)
max_scan(rows, j, best) ==
    IF j > Len(rows) THEN [raised |-> NoError, item |-> best]
    ELSE LET c == py_gt(rows[j].data, best.data) IN
         IF c.raised # NoError THEN [raised |-> c.raised, item |-> best]
         ELSE max_scan(rows, j + 1, IF c.value THEN rows[j] ELSE best)

max_by_data(rows) == max_scan(rows, 2, rows[1])

\* the value _load_db stores in self._highest_id[table]
loaded_highest_id(rows) ==
    IF rows = <<>> THEN [raised |-> NoError, value |-> -1]
    ELSE LET m == max_by_data(rows) IN
         [raised |-> m.raised, value |-> m.item.id]

\* the least element of a non-empty set of positions
First(S) == CHOOSE j \in S : \A k \in S : j <= k

\* (row[0], row[1]) for one element of the list of a table
restore_tuple(row) ==
    IF row.type # "array" THEN [raised |-> NotSubscriptable, rows |-> <<>>]
    ELSE IF Len(row.val) < 2 THEN [raised |-> IndexError, rows |-> <<>>]
    ELSE [raised |-> NoError, rows |-> <<Row(row.val[1], row.val[2])>>]

\* [(row[0], row[1]) for row in self._db[table]]: the first row that cannot
\* be indexed raises
restore_tuples(arrays) ==
    LET r == [j \in 1 .. Len(arrays) |-> restore_tuple(arrays[j])]
        bad == {j \in 1 .. Len(arrays) : r[j].raised # NoError}
    IN  IF bad # {}
        THEN [raised |-> r[First(bad)].raised, rows |-> <<>>]
        ELSE [raised |-> NoError,
              rows |-> [j \in 1 .. Len(arrays) |-> r[j].rows[1]]]

\* mutant of json_loads: bytes that are not JSON are taken for an empty object
json_loads_lenient(content) == [raised |-> NoError, value |-> content]

\* json.loads(content)
json_loads(content) ==
    IF content.kind = "text"
    THEN [raised |-> JSONDecodeError, value |-> content]
    ELSE [raised |-> NoError, value |-> content]

\* the object is not constructed: __init__ raised err
not_constructed(err) ==
    [raised |-> err, db |-> EmptyDict, highest_id |-> EmptyMap]

\* _load_db: the outcome of loading a non-empty file.  A JSONDecodeError is
\* turned into DBError, the exception of either loop over the tables is not
\* caught
load_db(content) ==
    LET loaded == json_loads(content)
        m == loaded.value.members
        r == [i \in 1 .. Len(m) |-> restore_tuples(m[i].value)]
        bad_rows == {i \in 1 .. Len(m) : r[i].raised # NoError}
        d == [i \in 1 .. Len(m) |-> [name |-> m[i].key, rows |-> r[i].rows]]
        h == [i \in 1 .. Len(m) |-> loaded_highest_id(d[i].rows)]
        bad_max == {i \in 1 .. Len(m) : h[i].raised # NoError}
    IN  IF loaded.raised # NoError
        THEN not_constructed(DBError("Database file corrupt."))
        ELSE IF loaded.value.kind = "number" THEN not_constructed(NotIterable)
        ELSE IF bad_rows # {} THEN not_constructed(r[First(bad_rows)].raised)
        ELSE IF bad_max # {} THEN not_constructed(h[First(bad_max)].raised)
        ELSE [raised |-> NoError, db |-> d,
              highest_id |-> [t \in {d[i].name : i \in 1 .. Len(d)} |->
                                loaded_highest_id(GetItem(d, t)).value]]

\* FriDB.__init__: a new database for an empty file, else _load_db
init_db(content) ==
    IF file_is_empty(content)
    THEN [raised |-> NoError, db |-> EmptyDict, highest_id |-> EmptyMap]
    ELSE load_db(content)

\* mutant of check_fp: the check of the file is left out
check_fp_left_out(closed) == NoError

\* _check_fp
check_fp(closed) ==
    IF closed THEN DBError("Database file is closed") ELSE NoError

\* _check_table
check_table(d, table) ==
    IF ~HasKey(d, table) THEN DBError("Table does not exist.") ELSE NoError

\* mutant of is_id_in_table: the identifier is taken for a position in the list
is_id_in_table_by_position(d, row_id, table) == row_id < Len(GetItem(d, table))

\* _is_id_in_table
is_id_in_table(d, row_id, table) ==
    LET rows == GetItem(d, table) IN
    Len(SelectSeq(rows, LAMBDA r : r.id = row_id)) # 0

\* mutant of next_id: the identifier is derived from the number of rows
next_id_from_length(h, table) == Len(GetItem(db, table))

\* the identifier insert gives to the new row
next_id(h, table) == h[table] + 1

\* mutant of updated_rows: the updated row moves to the end of the list
updated_rows_moved(rows, row_id, data) ==
    SelectSeq(rows, LAMBDA r : r.id # row_id) \o <<Row(row_id, data)>>

\* the list comprehension of update
updated_rows(rows, row_id, data) ==
    [j \in 1 .. Len(rows) |->
        IF rows[j].id # row_id THEN rows[j] ELSE Row(row_id, data)]

\* the list comprehension of delete
remaining_rows(rows, row_id) == SelectSeq(rows, LAMBDA r : r.id # row_id)

\* mutant of slice_last: the rows are counted from the front of the list
slice_last_from_front(s, limit) ==
    SubSeq(s, 1, IF -limit < Len(s) THEN -limit ELSE Len(s))

\* Python slices ret[limit:] (limit < 0) and ret[:limit] (limit > 0)
slice_last(s, limit) ==
    LET start == IF Len(s) + limit < 0 THEN 0 ELSE Len(s) + limit
    IN  SubSeq(s, start + 1, Len(s))
slice_first(s, limit) ==
    SubSeq(s, 1, IF limit < Len(s) THEN limit ELSE Len(s))

\* the rows select returns for an existing table
select_rows(d, table, limit) ==
    LET rows == GetItem(d, table) IN
    IF limit < 0 THEN slice_last(rows, limit)
    ELSE IF limit > 0 THEN slice_first(rows, limit)
    ELSE rows

\* mutant of strip_ids: the identifiers are kept and the data is dropped
strip_data(rows) == [j \in 1 .. Len(rows) |-> PyInt(rows[j].id)]

\* [row for _, row in rows]
strip_ids(rows) == [j \in 1 .. Len(rows) |-> rows[j].data]

TotalRows(d) ==
    LET RECURSIVE sum(_)
        sum(i) == IF i = 0 THEN 0 ELSE Len(d[i].rows) + sum(i - 1)
    IN  sum(Len(d))

\* --------------------------------------------------------------- the state
Outcome(name, err, value) ==
    /\ call' = name
    /\ raised' = err
    /\ ret' = value
    /\ found_closed' = (constructed /\ file_closed)

Init ==
    /\ constructed = TRUE
    /\ db = EmptyDict
    /\ highest_id = EmptyMap
    /\ file_closed = FALSE
    /\ file_content = EmptyFile
    /\ call = "create"
    /\ raised = NoError
    /\ ret = None
    /\ found_closed = FALSE
    /\ issued = EmptyMap
    /\ created = EmptyMap
    /\ history = EmptyMap

\* unchanged parts of the object and of the file
Store == <<db, highest_id>>
History == <<issued, created, history>>

\* ------------------------------------------------------------- operations
\* mutant of reset_highest_id: a counter the dict still holds is kept
keep_highest_id(h, table) ==
    IF table \in DOMAIN h THEN h ELSE MapSet(h, table, -1)

\* self._highest_id[table] = -1 of create_table
reset_highest_id(h, table) == MapSet(h, table, -1)

\* FriDB.create_table
create_table(tablename) ==
    /\ constructed
    /\ IF check_fp(file_closed) # NoError
       THEN /\ Outcome("create_table", check_fp(file_closed), None)
            /\ UNCHANGED <<Store, History>>
       ELSE IF HasKey(db, tablename)
       THEN /\ Outcome("create_table", DBError("Table already exists."), None)
            /\ UNCHANGED <<Store, History>>
       ELSE /\ db' = SetItem(db, tablename, <<>>)
            /\ highest_id' = reset_highest_id(highest_id, tablename)
            /\ issued' = MapSet(issued, tablename, {})
            /\ created' = MapSet(created, tablename, 0)
            /\ history' = MapSet(history, tablename, <<>>)
            /\ Outcome("create_table", NoError, None)
    /\ UNCHANGED <<constructed, file_closed, file_content>>

\* FriDB.tables
tables ==
    /\ constructed
    /\ Outcome("tables", NoError, List(Keys(db)))
    /\ UNCHANGED <<constructed, Store, History, file_closed, file_content>>

\* FriDB.drop_table
drop_table(tablename) ==
    /\ constructed
    /\ IF check_fp(file_closed) # NoError
       THEN /\ Outcome("drop_table", check_fp(file_closed), None)
            /\ UNCHANGED <<Store, History>>
       ELSE IF check_table(db, tablename) # NoError
       THEN /\ Outcome("drop_table", check_table(db, tablename), None)
            /\ UNCHANGED <<Store, History>>
       ELSE /\ db' = DelItem(db, tablename)
            /\ issued' = MapDel(issued, tablename)
            /\ created' = MapDel(created, tablename)
            /\ history' = MapDel(history, tablename)
            /\ Outcome("drop_table", NoError, None)
            /\ UNCHANGED highest_id
    /\ UNCHANGED <<constructed, file_closed, file_content>>

\* FriDB.insert
insert(table, data) ==
    /\ constructed
    /\ IF check_fp(file_closed) # NoError
       THEN /\ Outcome("insert", check_fp(file_closed), None)
            /\ UNCHANGED <<Store, History>>
       ELSE IF check_table(db, table) # NoError
       THEN /\ Outcome("insert", check_table(db, table), None)
            /\ UNCHANGED <<Store, History>>
       ELSE /\ next_id(highest_id, table) <= MaxId
            /\ TotalRows(db) < MaxRows
            /\ db' = SetItem(db, table,
                        Append(GetItem(db, table),
                               Row(next_id(highest_id, table), data)))
            /\ highest_id' = MapSet(highest_id, table, highest_id[table] + 1)
            /\ issued' = MapSet(issued, table,
                            issued[table] \cup {next_id(highest_id, table)})
            /\ created' = IF table \in DOMAIN created
                          THEN MapSet(created, table, created[table] + 1)
                          ELSE created
            /\ history' = MapSet(history, table,
                             Append(history[table],
                                    Row(next_id(highest_id, table), data)))
            /\ Outcome("insert", NoError, None)
    /\ UNCHANGED <<constructed, file_closed, file_content>>

\* FriDB.update
update(table, row_id, data) ==
    /\ constructed
    /\ IF check_fp(file_closed) # NoError
       THEN /\ Outcome("update", check_fp(file_closed), None)
            /\ UNCHANGED <<Store, history>>
       ELSE IF check_table(db, table) # NoError
       THEN /\ Outcome("update", check_table(db, table), None)
            /\ UNCHANGED <<Store, history>>
       ELSE IF ~is_id_in_table(db, row_id, table)
       THEN /\ Outcome("update",
                  DBError("Modifying of an entry that is not in the database."),
                  None)
            /\ UNCHANGED <<Store, history>>
       ELSE /\ db' = SetItem(db, table,
                        updated_rows(GetItem(db, table), row_id, data))
            /\ history' = MapSet(history, table,
                  [j \in 1 .. Len(history[table]) |->
                     IF history[table][j].id = row_id
                     THEN Row(row_id, data) ELSE history[table][j]])
            /\ Outcome("update", NoError, None)
            /\ UNCHANGED highest_id
    /\ UNCHANGED <<constructed, issued, created, file_closed, file_content>>

\* the outcome of self.select(table, limit)
select_result(closed, d, table, limit) ==
    IF check_fp(closed) # NoError
    THEN [raised |-> check_fp(closed), value |-> None]
    ELSE IF check_table(d, table) # NoError
    THEN [raised |-> check_table(d, table), value |-> None]
    ELSE [raised |-> NoError, value |-> List(select_rows(d, table, limit))]

\* FriDB.select
select(table, limit) ==
    /\ constructed
    /\ LET r == select_result(file_closed, db, table, limit)
       IN  Outcome("select", r.raised, r.value)
    /\ UNCHANGED <<constructed, Store, History, file_closed, file_content>>

\* FriDB.read: the rows of self.select(table, limit) without their identifiers
read(table, limit) ==
    /\ constructed
    /\ LET r == select_result(file_closed, db, table, limit)
       IN  IF r.raised # NoError
           THEN Outcome("read", r.raised, None)
           ELSE Outcome("read", NoError, List(strip_ids(r.value.items)))
    /\ UNCHANGED <<constructed, Store, History, file_closed, file_content>>

\* FriDB.delete
delete(table, row_id) ==
    /\ constructed
    /\ IF check_fp(file_closed) # NoError
       THEN /\ Outcome("delete", check_fp(file_closed), None)
            /\ UNCHANGED <<Store, history>>
       ELSE IF check_table(db, table) # NoError
       THEN /\ Outcome("delete", check_table(db, table), None)
            /\ UNCHANGED <<Store, history>>
       ELSE IF ~is_id_in_table(db, row_id, table)
       THEN /\ Outcome("delete",
                  DBError("Deleting an entry that doesn't exist."), None)
            /\ UNCHANGED <<Store, history>>
       ELSE /\ db' = SetItem(db, table,
                        remaining_rows(GetItem(db, table), row_id))
            /\ history' = MapSet(history, table,
                  SelectSeq(history[table], LAMBDA r : r.id # row_id))
            /\ Outcome("delete", NoError, None)
            /\ UNCHANGED highest_id
    /\ UNCHANGED <<constructed, issued, created, file_closed, file_content>>

\* mutant of truncate: the former content is kept
truncate_left_out(content) == content

\* self._file.seek(0); self._file.truncate()
truncate(content) == EmptyFile

\* the file after data is written at its end: JSON after other bytes is not
\* JSON
write(content, data) == IF content.kind = "empty" THEN data ELSE Text

\* the content of the file after save() on an open file
save_content(d, content) == write(truncate(content), dump(d))

\* FriDB.save
save ==
    /\ constructed
    /\ IF check_fp(file_closed) # NoError
       THEN /\ Outcome("save", check_fp(file_closed), None)
            /\ UNCHANGED file_content
       ELSE /\ file_content' = save_content(db, file_content)
            /\ Outcome("save", NoError, None)
    /\ UNCHANGED <<constructed, Store, History, file_closed>>

\* mutant of disconnect_content: the store is written on every disconnect
disconnect_always_writes(closed, d, content) == dump(d)

\* the content of the file after disconnect: save() if the file is open
disconnect_content(closed, d, content) ==
    IF ~closed THEN save_content(d, content) ELSE content

\* FriDB.disconnect
disconnect ==
    /\ constructed
    /\ file_content' = disconnect_content(file_closed, db, file_content)
    /\ file_closed' = TRUE
    /\ db' = EmptyDict
    /\ Outcome("disconnect", NoError, None)
    /\ UNCHANGED <<constructed, highest_id, History>>

\* connect(db_file) once the previous object is disconnected or was never
\* constructed: open the file in mode a+ and construct a FriDB on it
connect ==
    /\ ~constructed \/ file_closed
    /\ LET r == init_db(file_content) IN
       /\ constructed' = (r.raised = NoError)
       /\ db' = r.db
       /\ highest_id' = r.highest_id
       /\ file_closed' = (r.raised # NoError)
       /\ Outcome("connect", r.raised, None)
    /\ created' = EmptyMap
    /\ UNCHANGED <<file_content, issued, history>>

\* create(db_file): open the file in mode w+, which empties it
create ==
    /\ ~constructed \/ file_closed
    /\ file_content' = EmptyFile
    /\ LET r == init_db(EmptyFile) IN
       /\ constructed' = (r.raised = NoError)
       /\ db' = r.db
       /\ highest_id' = r.highest_id
       /\ file_closed' = (r.raised # NoError)
       /\ Outcome("create", r.raised, None)
    /\ issued' = EmptyMap
    /\ created' = EmptyMap
    /\ history' = EmptyMap

Next ==
    \/ \E t \in Names : create_table(t)
    \/ tables
    \/ \E t \in Names : drop_table(t)
    \/ \E t \in Names, v \in Values : insert(t, v)
    \/ \E t \in Names, i \in Ids, v \in Values : update(t, i, v)
    \/ \E t \in Names, l \in Limits : select(t, l)
    \/ \E t \in Names, l \in Limits : read(t, l)
    \/ \E t \in Names, i \in Ids : delete(t, i)
    \/ save
    \/ disconnect
    \/ connect
    \/ create

Spec == Init /\ [][Next]_vars

\* one session (from create to disconnect, without explicit save) over the
\* tables of TableNames
NextTables ==
    \/ \E t \in TableNames : create_table(t)
    \/ tables
    \/ \E t \in TableNames : drop_table(t)
    \/ \E t \in TableNames, v \in Values : insert(t, v)
    \/ \E t \in TableNames, i \in Ids, v \in Values : update(t, i, v)
    \/ \E t \in TableNames, l \in Limits : select(t, l)
    \/ \E t \in TableNames, l \in Limits : read(t, l)
    \/ \E t \in TableNames, i \in Ids : delete(t, i)
    \/ disconnect

SpecTables == Init /\ [][NextTables]_vars

\* the contents of the file a first session may find: no bytes, bytes that
\* are not JSON, a JSON number, and objects without a table, with one table
\* of one row, with a row of one element and with a bare value as row
TableFile(rows) == JsonObject(<<[key |-> "t1", value |-> rows]>>)
FileContents ==
    {EmptyFile, Text, JsonNumber, JsonObject(<<>>),
     TableFile(<<JsonArray(<<0, Str(1)>>)>>),
     TableFile(<<JsonArray(<<0>>)>>),
     TableFile(<<PyInt(1)>>)}

\* no object is constructed yet and the file holds any of FileContents
InitFiles ==
    /\ constructed = FALSE
    /\ db = EmptyDict
    /\ highest_id = EmptyMap
    /\ file_closed = TRUE
    /\ file_content \in FileContents
    /\ call = "none"
    /\ raised = NoError
    /\ ret = None
    /\ found_closed = FALSE
    /\ created = EmptyMap
    /\ LET r == init_db(file_content)
           ts == IF r.raised = NoError THEN DOMAIN r.highest_id ELSE {}
       IN  /\ history = [t \in ts |-> GetItem(r.db, t)]
           /\ issued = [t \in ts |->
                          {GetItem(r.db, t)[j].id :
                              j \in 1 .. Len(GetItem(r.db, t))}]

\* the whole program on a file that exists before the first session
SpecFiles == InitFiles /\ [][Next]_vars

TypeOK ==
    /\ constructed \in BOOLEAN
    /\ file_closed \in BOOLEAN
    /\ found_closed \in BOOLEAN

\* ------------------------------------------------------------------ claims
ClosedError == DBError("Database file is closed")

\* C1: in every reachable state no two rows of the same table carry the
\* same identifier.
C1_UniqueIdentifiers ==
    \A i \in 1 .. Len(db) : \A j, k \in 1 .. Len(db[i].rows) :
        db[i].rows[j].id = db[i].rows[k].id => j = k

\* C2: an identifier insert once assigned to a row of table T is never
\* assigned by a later insert into T while T exists, also after deletes and
\* after disconnect and connect.
C2_IdentifierNeverReissued ==
    [][\A t \in TableNames, v \in Values :
         (insert(t, v) /\ raised' = NoError)
            => next_id(highest_id, t) \notin issued[t]]_vars

\* C3: for a table created by create_table in the current session the k-th
\* insert (k = 0, 1, ...) appends a row with identifier k, whatever happened
\* between the inserts.
C3_KthInsertGetsIdK ==
    [][\A t \in TableNames, v \in Values :
         (insert(t, v) /\ raised' = NoError /\ t \in DOMAIN created)
            => LET rows == GetItem(db', t)
               IN  rows[Len(rows)] = Row(created[t], v)]_vars

\* the second insert into t1 got identifier 1 although the row with
\* identifier 0 was deleted before it, and t2 holds a row of its own
C3_Witness ==
    /\ call = "insert" /\ raised = NoError
    /\ HasKey(db, "t1") /\ HasKey(db, "t2")
    /\ "t1" \in DOMAIN created /\ created["t1"] = 2
    /\ Len(GetItem(db, "t1")) = 1 /\ GetItem(db, "t1")[1].id = 1
    /\ Len(GetItem(db, "t2")) = 1

\* C4: saving an open store and loading the file in a fresh session gives a
\* store with the same tables() and the same select(table, 0) for every table.
C4_RoundTrip ==
    (constructed /\ ~file_closed) =>
        LET r == init_db(dump(db)) IN
        /\ r.raised = NoError
        /\ Keys(r.db) = Keys(db)
        /\ \A t \in TableNames :
              HasKey(db, t) => select_rows(r.db, t, 0) = select_rows(db, t, 0)

\* C5: on a disconnected object insert, update, delete, select, read,
\* create_table and drop_table raise DBError 'Database file is closed' and
\* change neither the store in memory nor the content of the file.
GuardedCalls ==
    {"insert", "update", "delete", "select", "read",
     "create_table", "drop_table"}

C5_ClosedCallsFail ==
    [][(constructed /\ file_closed /\ call' \in GuardedCalls)
         => /\ raised' = ClosedError
            /\ UNCHANGED <<db, highest_id, file_content>>]_vars

\* insert was called on a disconnected object whose file holds a table
C5_Witness ==
    /\ found_closed /\ call = "insert" /\ raised = ClosedError
    /\ file_content.members # <<>>

\* C6: on a disconnected object every public method other than disconnect
\* raises DBError, tables() and save() included.
C6_EveryMethodRaisesWhenClosed ==
    (found_closed /\ call \notin {"disconnect", "connect", "create"})
        => raised.type = "DBError"

\* C7: a second or later disconnect raises nothing, saves nothing and leaves
\* the content of the file as the first disconnect left it.
C7_DisconnectIdempotent ==
    [][(constructed /\ file_closed /\ call' = "disconnect")
         => /\ raised' = NoError
            /\ file_content' = file_content
            /\ file_closed'
            /\ UNCHANGED <<db, highest_id>>]_vars

\* disconnect was called on an already disconnected object whose file holds
\* a table with a row
C7_Witness ==
    /\ found_closed /\ call = "disconnect" /\ raised = NoError
    /\ file_content.members # <<>>
    /\ file_content.members[1].value # <<>>

\* C8: the first disconnect of an open session writes the serialization of
\* the store as it is at the call, and a following connect loads that store.
C8_FirstDisconnectPersists ==
    [][(constructed /\ ~file_closed /\ call' = "disconnect")
         => /\ file_content' = dump(db)
            /\ LET r == init_db(file_content')
               IN  r.raised = NoError /\ r.db = db]_vars

\* s without its j-th element
RemoveAt(s, j) == SubSeq(s, 1, j - 1) \o SubSeq(s, j + 1, Len(s))

\* every table other than t is where and what it was
OtherTablesUnchanged(t) ==
    /\ Keys(db') = Keys(db)
    /\ \A u \in TableNames \ {t} :
          HasKey(db, u) => GetItem(db', u) = GetItem(db, u)
    /\ \A u \in DOMAIN highest_id \ {t} :
          u \in DOMAIN highest_id' /\ highest_id'[u] = highest_id[u]

\* C9: a successful delete(T, id) removes exactly the row with that
\* identifier, keeps every other row of T and every other table, and does not
\* decrement the counter of T, so that the next insert into T does not get
\* the deleted identifier.
C9_DeleteRemovesExactlyOneRow ==
    [][\A t \in TableNames, i \in Ids :
         (delete(t, i) /\ raised' = NoError)
            => /\ \E j \in 1 .. Len(GetItem(db, t)) :
                    /\ GetItem(db, t)[j].id = i
                    /\ GetItem(db', t) = RemoveAt(GetItem(db, t), j)
               /\ OtherTablesUnchanged(t)
               /\ highest_id'[t] = highest_id[t]
               /\ next_id(highest_id', t) # i]_vars

\* C10: a successful update(T, id, v) replaces the value of the row with that
\* identifier and changes nothing else: identifier, position, number of rows,
\* other rows, other tables and the counter stay as they were.
C10_UpdateReplacesOneValue ==
    [][\A t \in TableNames, i \in Ids, v \in Values :
         (update(t, i, v) /\ raised' = NoError)
            => /\ \E j \in 1 .. Len(GetItem(db, t)) :
                    /\ GetItem(db, t)[j].id = i
                    /\ GetItem(db', t) =
                          [GetItem(db, t) EXCEPT ![j] = Row(i, v)]
               /\ OtherTablesUnchanged(t)
               /\ highest_id'[t] = highest_id[t]]_vars

\* no row of table t carries identifier i
NoRowWithId(t, i) ==
    \A j \in 1 .. Len(GetItem(db, t)) : GetItem(db, t)[j].id # i

\* the step is a call of insert, update, delete, select or read on table t
RowCallOn(t) ==
    \/ call' = "insert" /\ \E v \in Values : insert(t, v)
    \/ call' = "update" /\ \E i \in Ids, v \in Values : update(t, i, v)
    \/ call' = "delete" /\ \E i \in Ids : delete(t, i)
    \/ call' = "select" /\ \E l \in Limits : select(t, l)
    \/ call' = "read" /\ \E l \in Limits : read(t, l)

\* C11: on an open session insert, update, delete, select and read of a table
\* that does not exist raise DBError 'Table does not exist.', update and
\* delete of an identifier no row of an existing table carries raise DBError,
\* and in both cases the store and the file stay as they were.
C11_MissingTargetFails ==
    [][(/\ constructed /\ ~file_closed
        /\ call' \in {"insert", "update", "delete", "select", "read"}) =>
         \A t \in TableNames :
            /\ (~HasKey(db, t) /\ RowCallOn(t))
                  => /\ raised' = DBError("Table does not exist.")
                     /\ UNCHANGED <<db, highest_id, file_content>>
            /\ (/\ HasKey(db, t)
                /\ \E i \in Ids :
                     /\ NoRowWithId(t, i)
                     /\ \/ call' = "update" /\ \E v \in Values : update(t, i, v)
                        \/ call' = "delete" /\ delete(t, i))
                  => /\ raised'.type = "DBError"
                     /\ UNCHANGED <<db, highest_id, file_content>>]_vars

\* delete failed on table t1, which holds one row and had two identifiers
\* assigned: the identifier was negative, not yet assigned or already deleted
C11_Witness ==
    /\ call = "delete"
    /\ raised = DBError("Deleting an entry that doesn't exist.")
    /\ ~found_closed
    /\ HasKey(db, "t1") /\ Len(GetItem(db, "t1")) = 1
    /\ Cardinality(issued["t1"]) = 2

Min(a, b) == IF a < b THEN a ELSE b

\* C12: a successful select(T, limit) on a table of N rows returns all N rows
\* if limit = 0, the first min(limit, N) rows if limit > 0 and the last
\* min(|limit|, N) rows if limit < 0, in the order of the table.
C12_SelectWindow ==
    [][\A t \in TableNames, l \in Limits :
         (call' = "select" /\ raised' = NoError /\ select(t, l))
            => LET rows == GetItem(db, t)
                   N == Len(rows)
               IN  ret' = List(
                     IF l = 0 THEN rows
                     ELSE IF l > 0 THEN SubSeq(rows, 1, Min(l, N))
                     ELSE SubSeq(rows, N - Min(-l, N) + 1, N))]_vars

\* select returned one row, the last of the two rows of t1
C12_Witness ==
    /\ call = "select" /\ raised = NoError
    /\ HasKey(db, "t1") /\ Len(GetItem(db, "t1")) = 2
    /\ ret = List(<<GetItem(db, "t1")[2]>>)

\* C13: read(T, limit) raises what select(T, limit) raises in the same state,
\* and when they succeed read returns a list as long as the list of select
\* whose i-th element is the value of the i-th row of select.
C13_ReadIsSelectWithoutIds ==
    [][\A t \in TableNames, l \in Limits :
         (call' = "read" /\ read(t, l))
            => LET s == select_result(file_closed, db, t, l) IN
               /\ raised' = s.raised
               /\ raised' = NoError
                    => /\ Len(ret'.items) = Len(s.value.items)
                       /\ \A k \in 1 .. Len(s.value.items) :
                             ret'.items[k] = s.value.items[k].data]_vars

\* read returned the values of the two rows of t1, which differ
C13_Witness ==
    /\ call = "read" /\ raised = NoError
    /\ HasKey(db, "t1") /\ Len(ret.items) = 2
    /\ ret.items[1] # ret.items[2]
    /\ ret.items = <<GetItem(db, "t1")[1].data, GetItem(db, "t1")[2].data>>

\* C14: on an open session select(T, 0) returns, for every table T, the rows
\* in the order of their inserts, without the deleted rows and with the last
\* value an update gave them, and read(T, 0) returns their values; save,
\* disconnect and connect between the calls change neither order nor content.
C14_SelectIsInsertionHistory ==
    (constructed /\ ~file_closed) =>
        /\ \A t \in TableNames : HasKey(db, t) <=> t \in DOMAIN history
        /\ \A t \in DOMAIN history :
              /\ select_result(file_closed, db, t, 0)
                    = [raised |-> NoError, value |-> List(history[t])]
              /\ strip_ids(select_rows(db, t, 0))
                    = [j \in 1 .. Len(history[t]) |-> history[t][j].data]

\* select returned the two rows of t1 in the order of their inserts: the
\* first was loaded from the file by connect, the second, of another type,
\* was inserted after it and saved
C14_Witness ==
    /\ call = "select" /\ raised = NoError
    /\ HasKey(db, "t1") /\ "t1" \notin DOMAIN created
    /\ ret = List(history["t1"])
    /\ Len(history["t1"]) = 2
    /\ history["t1"][1].data.type # history["t1"][2].data.type
    /\ file_content = dump(db)

\* C15: on an open session create_table(name) of a present table raises
\* DBError 'Table already exists.' and leaves rows and counters as they were;
\* otherwise it raises nothing and adds the table, select and read of it give
\* the empty list for every limit, its counter is -1 and the identifier of
\* its next insert is 0, while every other table stays as it was.
C15_CreateTable ==
    [][\A t \in TableNames :
         (/\ constructed /\ ~file_closed
          /\ call' = "create_table" /\ create_table(t))
            => IF HasKey(db, t)
               THEN /\ raised' = DBError("Table already exists.")
                    /\ UNCHANGED <<db, highest_id, file_content>>
               ELSE /\ raised' = NoError
                    /\ Keys(db') = Append(Keys(db), t)
                    /\ \A u \in TableNames \ {t} :
                          HasKey(db, u) => GetItem(db', u) = GetItem(db, u)
                    /\ \A u \in DOMAIN highest_id \ {t} :
                          highest_id'[u] = highest_id[u]
                    /\ \A l \in Limits :
                          /\ select_result(file_closed', db', t, l)
                                = [raised |-> NoError, value |-> List(<<>>)]
                          /\ strip_ids(select_rows(db', t, l)) = <<>>
                    /\ highest_id'[t] = -1
                    /\ next_id(highest_id', t) = 0]_vars

\* create_table made the empty table t1 with counter -1 while the file still
\* holds the rows of an earlier table t1, saved and then dropped
C15_Witness ==
    /\ call = "create_table" /\ raised = NoError
    /\ HasKey(db, "t1") /\ GetItem(db, "t1") = <<>>
    /\ highest_id["t1"] = -1
    /\ file_content.members # <<>>
    /\ file_content.members[1].key = "t1"
    /\ Len(file_content.members[1].value) = 2

TableMissing == DBError("Table does not exist.")

\* C16: on an open session drop_table(name) of an absent table raises DBError
\* 'Table does not exist.' and changes nothing; otherwise it raises nothing
\* and removes exactly that table: tables() is the former list without name,
\* every other table keeps its rows and its counter, and while name is absent
\* select, read, insert, update and delete on it raise 'Table does not exist.'
C16_DropTable ==
    [][(constructed /\ ~file_closed) =>
         \A t \in TableNames :
            /\ (call' = "drop_table" /\ drop_table(t))
                 => IF ~HasKey(db, t)
                    THEN /\ raised' = TableMissing
                         /\ UNCHANGED <<db, highest_id, file_content>>
                    ELSE /\ raised' = NoError
                         /\ ~HasKey(db', t)
                         /\ Keys(db') = SelectSeq(Keys(db), LAMBDA k : k # t)
                         /\ \A u \in TableNames \ {t} :
                               HasKey(db, u)
                                  => /\ GetItem(db', u) = GetItem(db, u)
                                     /\ highest_id'[u] = highest_id[u]
                         /\ \A l \in Limits :
                               select_result(file_closed', db', t, l).raised
                                  = TableMissing
                         /\ UNCHANGED file_content
            /\ (~HasKey(db, t) /\ RowCallOn(t)) => raised' = TableMissing]_vars

\* drop_table removed t1 and t2 is left with two rows
C16_Witness ==
    /\ call = "drop_table" /\ raised = NoError
    /\ Keys(db) = <<"t2">>
    /\ Len(GetItem(db, "t2")) = 2
    /\ "t1" \in DOMAIN highest_id

\* C17: constructing a session on a file whose bytes are not JSON raises
\* DBError 'Database file corrupt.' and no object, with or without a store,
\* is constructed.
C17_InvalidJsonIsCorrupt ==
    [][(call' = "connect" /\ file_content.kind = "text" /\ connect)
         => /\ raised' = DBError("Database file corrupt.")
            /\ ~constructed'
            /\ db' = EmptyDict /\ highest_id' = EmptyMap
            /\ UNCHANGED file_content]_vars

\* connect failed with the DBError on a file that is not JSON
C17_Witness ==
    /\ call = "connect" /\ raised = DBError("Database file corrupt.")
    /\ file_content = Text
    /\ ~constructed

\* every table of the JSON object is a list of arrays of two elements
WellFormed(content) ==
    /\ content.kind = "json"
    /\ \A i \in 1 .. Len(content.members) :
          \A j \in 1 .. Len(content.members[i].value) :
             LET row == content.members[i].value[j]
             IN  row.type = "array" /\ Len(row.val) = 2

\* C18: constructing a session on a file that holds JSON in which a table is
\* not a list of (identifier, value) pairs, or whose top level is not an
\* object, raises DBError 'Database file corrupt.' and nothing else.
C18_MalformedRowsAreCorrupt ==
    [][(/\ connect
        /\ file_content.kind \in {"json", "number"}
        /\ ~WellFormed(file_content))
         => raised' = DBError("Database file corrupt.")]_vars

\* C19: a save() on an open session raises nothing, leaves as content of the
\* file exactly the serialization of the store, whatever the file held
\* before, and leaves the store as it was; a second save() right after it
\* would leave the same content.
C19_SaveOverwrites ==
    [][(constructed /\ ~file_closed /\ call' = "save" /\ save)
         => /\ raised' = NoError
            /\ file_content' = dump(db)
            /\ UNCHANGED <<db, highest_id, file_closed>>
            /\ save_content(db', file_content') = file_content']_vars

\* save wrote the empty table t1 of a session opened by connect, which had
\* loaded t1 with rows from the file
C19_Witness ==
    /\ call = "save" /\ raised = NoError
    /\ HasKey(db, "t1") /\ "t1" \notin DOMAIN created
    /\ highest_id["t1"] >= 0
    /\ GetItem(db, "t1") = <<>>
    /\ file_content = dump(db)

\* C20: a successful insert, update or delete on table T leaves the list of
\* tables and the rows and the counter of every other table as they were, and
\* an insert into T takes its identifier from the counter of T alone: it is
\* the number of inserts into T since T was created, 0 for the first.
C20_TablesIndependent ==
    [][(/\ constructed /\ ~file_closed /\ raised' = NoError
        /\ call' \in {"insert", "update", "delete"}) =>
         \A t \in TableNames :
            /\ (\/ call' = "insert" /\ \E v \in Values : insert(t, v)
                \/ call' = "update"
                     /\ \E i \in Ids, v \in Values : update(t, i, v)
                \/ call' = "delete" /\ \E i \in Ids : delete(t, i))
                  => OtherTablesUnchanged(t)
            /\ (call' = "insert" /\ \E v \in Values : insert(t, v))
                  => LET rows == GetItem(db', t) IN
                     /\ rows[Len(rows)].id = highest_id[t] + 1
                     /\ highest_id'[t] = highest_id[t] + 1
                     /\ t \in DOMAIN created
                          => rows[Len(rows)].id = created[t]]_vars

\* the first insert into t2 got identifier 0 after t1 got its first row, also
\* with identifier 0
C20_Witness ==
    /\ call = "insert" /\ raised = NoError
    /\ Keys(db) = <<"t1", "t2">>
    /\ Len(GetItem(db, "t1")) = 1 /\ GetItem(db, "t1")[1].id = 0
    /\ Len(GetItem(db, "t2")) = 1 /\ GetItem(db, "t2")[1].id = 0
    /\ highest_id = [t \in TableNames |-> 0]

\* the greatest identifier among rows, -1 for no rows
MaxIdOf(rows) ==
    IF rows = <<>> THEN -1
    ELSE LET ids == {rows[j].id : j \in 1 .. Len(rows)}
         IN  CHOOSE i \in ids : \A k \in ids : k <= i

\* C21: right after a successful load the counter of every table is the
\* greatest identifier among the rows loaded for it, -1 for a table without
\* rows, whatever the values and the number of the rows, so that the next
\* insert gets that identifier + 1.
C21_LoadedCounterIsMaxId ==
    (call = "connect" /\ raised = NoError) =>
        \A t \in TableNames :
            HasKey(db, t)
               => /\ highest_id[t] = MaxIdOf(GetItem(db, t))
                  /\ next_id(highest_id, t) = MaxIdOf(GetItem(db, t)) + 1

\* in state (d, h) of an open session the counter of every table is at least
\* every identifier in the table
CounterBoundsIds(d, h) ==
    \A i \in 1 .. Len(d) : \A j \in 1 .. Len(d[i].rows) :
        d[i].rows[j].id <= h[d[i].name]

\* a step within one session does not decrease the counter of a table that
\* exists before and after it
CounterNeverDecreases ==
    (constructed /\ ~file_closed /\ constructed' /\ ~file_closed')
        => \A t \in TableNames :
              (HasKey(db, t) /\ HasKey(db', t))
                 => highest_id'[t] >= highest_id[t]

\* C22: in every state of an open session, the state right after a load
\* included, the counter of each table is greater than or equal to every
\* identifier in the table, and within a session the counter of a table that
\* stays in existence never decreases.
C22_CounterBoundsIdentifiers ==
    [][/\ (constructed' /\ ~file_closed') => CounterBoundsIds(db', highest_id')
       /\ CounterNeverDecreases]_vars

\* the second half of C22 alone
C22_CounterMonotone == [][CounterNeverDecreases]_vars

\* the first half of C22 as a predicate of the state
C22_CounterBoundsState ==
    (constructed /\ ~file_closed) => CounterBoundsIds(db, highest_id)

\* the methods of FriDB that are not meant to write the file
UnsavedCalls ==
    {"create_table", "drop_table", "insert", "update", "delete",
     "select", "read", "tables"}

\* C23: create_table, drop_table, insert, update, delete, select, read and
\* tables leave the content of the file as it is; on the file of a session
\* the content changes only in save() and in disconnect() while the file is
\* open (create() starts a session on a new, empty file).  So what was
\* changed since the last save() is not in the file before the next save()
\* or disconnect().
C23_FileChangesOnlyOnSave ==
    [][/\ call' \in UnsavedCalls => UNCHANGED file_content
       /\ file_content' # file_content
            => \/ call' = "create"
               \/ /\ constructed /\ ~file_closed
                  /\ call' \in {"save", "disconnect"}]_vars

\* an insert after a save: the file still holds the saved table t1 without
\* the new row
C23_Witness ==
    /\ call = "insert" /\ raised = NoError /\ ~file_closed
    /\ file_content.kind = "json" /\ file_content.members # <<>>
    /\ file_content.members[1].key = "t1"
    /\ Len(file_content.members[1].value) + 1 = Len(GetItem(db, "t1"))
    /\ file_content # dump(db)

====
